---- MODULE Spec2Model ----
(***************************************************************************)
(* Model of the IaC scan client (src/src/accessor.ts, class IACAccessor):  *)
(* one scan() invocation as a state machine over the submit loop, the poll *)
(* loop, the wall-clock deadline and the shared retryCount field.          *)
(* Time is in milliseconds, as returned by Date.getTime().                 *)
(***************************************************************************)
EXTENDS Integers, Sequences, FiniteSets, TLC

VARIABLES
    scanStartTime,   \* constructor parameter (accessor.ts:140)
    scanTimeOut,     \* constructor parameter (accessor.ts:139)
    retryCount,      \* IACAccessor.retryCount (accessor.ts:127)
    plan,            \* the iac string handed to scan(): counts of 1-byte and 2-byte characters
    now,             \* the wall clock, new Date().getTime()
    pc,              \* position of the single scan task
    method,          \* method argument of the active request() call
    intervalMs,      \* local of request() (accessor.ts:166)
    pollIntervalMs,  \* local of pollOperation() (accessor.ts:271)
    inflight,        \* HTTP calls started on the transport and not yet returned
    result,          \* what scan() returned or threw
    posts,           \* history: number of POST requests started
    gets,            \* history: number of GET requests started
    lastReqTime,     \* history: clock value when the last request was started
    lastStatus,      \* history: status code of the response to the last request, -1 before it arrives
    waits,           \* history: the sleeps of the current phase, in order
    calledAt,        \* history: clock value when scan() was called
    op,              \* local op of scan() (accessor.ts:325): the done operation, None before
    scans,           \* history: number of scan() calls made on the client object
    failure_criteria, \* the failure_criteria input string handed to the parser
    parsed,          \* what validateAndParseFailureCriteria returned or threw
    run              \* the state of run(): its inputs, position and published outputs

\* the variables of the scan client
scanVars == <<scanStartTime, scanTimeOut, retryCount, plan, now, pc, method, intervalMs,
              pollIntervalMs, inflight, result, posts, gets, lastReqTime, lastStatus,
              waits, calledAt, op, scans>>

\* the variables of the parser and of run()
actionVars == <<failure_criteria, parsed, run>>

vars == <<scanVars, actionVars>>

-----------------------------------------------------------------------------
(* Bounds of the model *)

MaxTimeoutSec == 9      \* the longer of the two scan timeouts explored, in seconds
MaxStartDelaySec == 3   \* seconds that may pass between construction and scan()
MaxLatencySec == 1      \* seconds an awaited call (token, HTTP) may take
MaxJitterSec == 1       \* seconds a timer may fire late
ShortTimeoutSec == 2    \* the shorter of the two scan timeouts explored, in seconds
MaxRetryCount == 6      \* cap of retryCount; no run of the client reaches it

(* Program constants *)

SCAN_FILE_MAX_SIZE_BYTES == 1000000
MsPerSecond == 1000
\* variant: 429 is not in the list
RETRIABLE_ERROR_CODES_no429 == {408, 500, 502, 503, 504}

RETRIABLE_ERROR_CODES == {408, 429, 500, 502, 503, 504}

-----------------------------------------------------------------------------
(* Inputs *)

ScanTimeOuts == {ShortTimeoutSec * MsPerSecond, MaxTimeoutSec * MsPerSecond}
ScanStartTimes == {0, 5 * MsPerSecond}

\* a plan is a string; only its UTF-8 length matters to the client
Plans ==
    { [ascii |-> 3, wide |-> 0],
      [ascii |-> SCAN_FILE_MAX_SIZE_BYTES, wide |-> 0],
      [ascii |-> SCAN_FILE_MAX_SIZE_BYTES - 2, wide |-> 1],
      [ascii |-> SCAN_FILE_MAX_SIZE_BYTES - 1, wide |-> 1],
      [ascii |-> SCAN_FILE_MAX_SIZE_BYTES + 1, wide |-> 0] }

\* status codes a response may carry; 0 stands for an undefined statusCode
StatusCodes == {0, 200, 400, 404, 408, 429, 500, 502, 503, 504}

Latencies == { s * MsPerSecond : s \in 0..MaxLatencySec }
Jitters == { s * MsPerSecond : s \in 0..MaxJitterSec }

-----------------------------------------------------------------------------
(* Data shapes.  An absent or empty string field is "" (both are falsy);   *)
(* an optional object field is None or Some(object).                        *)

None == [some |-> FALSE]
Some(x) == [some |-> TRUE, val |-> x]

Violations ==
    { [assetId |-> a, policyId |-> p, severity |-> s] :
        a \in {"", "asset-id"}, p \in {"", "policy-id"}, s \in {"", "CRITICAL"} }

HighViolation == [assetId |-> "asset-id", policyId |-> "policy-id", severity |-> "HIGH"]

ViolationLists ==
    {<<>>} \cup { <<v>> : v \in Violations } \cup { <<HighViolation, v>> : v \in Violations }

\* the iacValidationReport object: its violations field may be missing
Reports == { [violations |-> None] } \cup { [violations |-> Some(l)] : l \in ViolationLists }

\* the response object of an operation
Responses ==
    { [iacValidationReport |-> None] } \cup { [iacValidationReport |-> Some(r)] : r \in Reports }

\* the error object of an operation; code 0 stands for a missing code
OpErrors == { [code |-> c] : c \in {0, 400} }

DoneOperations ==
    { [done |-> TRUE, error |-> e, response |-> r] :
        e \in {None} \cup { Some(x) : x \in OpErrors },
        r \in {None} \cup { Some(x) : x \in Responses } }

NotDoneOperation == [done |-> FALSE, error |-> None, response |-> None]

\* what JSON.parse(body) may give: null (None) or an object
GetBodies == {None} \cup { Some(o) : o \in {NotDoneOperation} \cup DoneOperations }
PostBodies == {None, Some([name |-> "operation-id"])}

-----------------------------------------------------------------------------
(* Errors.  iac tells whether the value is an IACValidationException.       *)

IACValidationException(statusCode, message) ==
    [iac |-> TRUE, statusCode |-> statusCode, message |-> message]

OtherError(message) == [iac |-> FALSE, statusCode |-> 0, message |-> message]

NoResult == [kind |-> "none", statusCode |-> 0, message |-> <<>>, violations |-> <<>>]

Returned(vs) == [kind |-> "ok", statusCode |-> 0, message |-> <<>>, violations |-> vs]

\* variant: the catch block of scan() always reports 500
ScanCatch_500(err) ==
    [kind |-> "error",
     statusCode |-> 500,
     message |-> <<"Failed to scan file due to following error:">> \o err.message,
     violations |-> <<>>]

\* the catch block of scan()
ScanCatch(err) ==
    [kind |-> "error",
     statusCode |-> IF err.iac THEN err.statusCode ELSE 500,
     message |-> <<"Failed to scan file due to following error:">> \o err.message,
     violations |-> <<>>]

\* variant: the catch block drops the status of the exception it caught
RequestCatch_lost(err, errorMsg) == IACValidationException(500, <<errorMsg>> \o err.message)

\* the catch block of request()
RequestCatch(err, errorMsg) ==
    IACValidationException(IF err.iac THEN err.statusCode ELSE 500, <<errorMsg>> \o err.message)

\* variant: the timeout carries the status of the last response
TimedOut_last ==
    IACValidationException(IF lastStatus > 0 THEN lastStatus ELSE 500, <<"Operation timed out">>)

\* lines 194 and 279
TimedOut == IACValidationException(500, <<"Operation timed out">>)

ErrorMsg(m) ==
    IF m = "POST" THEN "encountered error while requesting scan"
    ELSE "encountered error while performing scan operation"

-----------------------------------------------------------------------------
(* Pure helpers of the client *)

\* new TextEncoder().encode(fromBase64(toBase64(iac))).byteLength
ByteLength(p) == p.ascii + 2 * p.wide

\* variant: a plan of exactly the maximum size is refused
validateIACValidationRequest_ge(p) ==
    IF ByteLength(p) >= SCAN_FILE_MAX_SIZE_BYTES
    THEN Some(IACValidationException(400, <<"[Invalid Request] Violations : Found Scan File with size">>))
    ELSE None

\* validateIACValidationRequest: None, or Some(the exception thrown)
validateIACValidationRequest(p) ==
    IF ByteLength(p) > SCAN_FILE_MAX_SIZE_BYTES
    THEN Some(IACValidationException(400, <<"[Invalid Request] Violations : Found Scan File with size">>))
    ELSE None

\* variant: the deadline instant itself still counts as before the deadline
shouldRetry_inclusive(t) == t <= scanStartTime + scanTimeOut

\* shouldRetry, at clock value t
shouldRetry(t) == t < scanStartTime + scanTimeOut

\* variant: the interval is lost, timers fire at once
Interval_zero(rc) == 0

\* variant: the interval is computed from the counter after its increment
Interval_after(rc) == (2 ^ (rc + 1)) * MsPerSecond

\* Math.pow(2, retryCount) * 1000
Interval(rc) == (2 ^ rc) * MsPerSecond

\* variant: a response without report counts as a report without violations
getViolations_lenient(operation) ==
    IF ~operation.response.some
    THEN [threw |-> TRUE,
          err |-> IACValidationException(500,
                    <<"[Internal Error]  Polling Validation Service Endpoint Timed Out">>)]
    ELSE IF ~operation.response.val.iacValidationReport.some
    THEN [threw |-> FALSE, val |-> <<>>]
    ELSE IF ~operation.response.val.iacValidationReport.val.violations.some
    THEN [threw |-> FALSE, val |-> <<>>]
    ELSE [threw |-> FALSE, val |-> operation.response.val.iacValidationReport.val.violations.val]

\* variant: a report without a violations field is an invalid report
getViolations_strict(operation) ==
    IF ~operation.response.some
    THEN [threw |-> TRUE,
          err |-> IACValidationException(500,
                    <<"[Internal Error]  Polling Validation Service Endpoint Timed Out">>)]
    ELSE IF \/ ~operation.response.val.iacValidationReport.some
            \/ ~operation.response.val.iacValidationReport.val.violations.some
    THEN [threw |-> TRUE,
          err |-> IACValidationException(500,
                    <<"[Internal Error] Validation Endpoint Returned Response with invalid validationReport">>)]
    ELSE [threw |-> FALSE, val |-> operation.response.val.iacValidationReport.val.violations.val]

\* getViolations: [threw |-> TRUE, err |-> e] or [threw |-> FALSE, val |-> list]
getViolations(operation) ==
    IF ~operation.response.some
    THEN [threw |-> TRUE,
          err |-> IACValidationException(500,
                    <<"[Internal Error]  Polling Validation Service Endpoint Timed Out">>)]
    ELSE IF ~operation.response.val.iacValidationReport.some
    THEN [threw |-> TRUE,
          err |-> IACValidationException(500,
                    <<"[Internal Error] Validation Endpoint Returned Response with invalid validationReport">>)]
    ELSE IF ~operation.response.val.iacValidationReport.val.violations.some
    THEN [threw |-> FALSE, val |-> <<>>]
    ELSE [threw |-> FALSE, val |-> operation.response.val.iacValidationReport.val.violations.val]

\* variant: the response is looked at before the error field
validatePollOperationResponse_responseFirst(operation) ==
    LET got == getViolations(operation) IN
    IF ~got.threw /\ \A i \in 1..Len(got.val) : got.val[i].assetId # "" /\ got.val[i].policyId # ""
    THEN None
    ELSE IF operation.error.some
    THEN Some(IACValidationException(
                IF operation.error.val.code = 0 THEN 500 ELSE operation.error.val.code,
                <<"Returned Error Response with following error:">>))
    ELSE IF got.threw THEN Some(got.err)
    ELSE Some(IACValidationException(500,
                <<"[Internal Error] invalid violations with one or more missing key Attributes", "", "">>))

\* variant: only the first violation of the report is checked
validatePollOperationResponse_firstOnly(operation) ==
    IF operation.error.some
    THEN Some(IACValidationException(
                IF operation.error.val.code = 0 THEN 500 ELSE operation.error.val.code,
                <<"Returned Error Response with following error:">>))
    ELSE LET got == getViolations(operation) IN
         IF got.threw THEN Some(got.err)
         ELSE IF Len(got.val) >= 1 /\ (got.val[1].assetId = "" \/ got.val[1].policyId = "")
         THEN Some(IACValidationException(500,
                     <<"[Internal Error] invalid violations with one or more missing key Attributes",
                       got.val[1].policyId, got.val[1].assetId>>))
         ELSE None

\* validatePollOperationResponse: None, or Some(the exception thrown)
validatePollOperationResponse(operation) ==
    IF operation.error.some
    THEN Some(IACValidationException(
                IF operation.error.val.code = 0 THEN 500 ELSE operation.error.val.code,
                <<"Returned Error Response with following error:">>))
    ELSE LET got == getViolations(operation) IN
         IF got.threw THEN Some(got.err)
         ELSE LET bad == { i \in 1..Len(got.val) :
                             got.val[i].assetId = "" \/ got.val[i].policyId = "" } IN
              IF bad = {} THEN None
              ELSE LET first == CHOOSE i \in bad : \A j \in bad : i <= j IN
                   Some(IACValidationException(500,
                          <<"[Internal Error] invalid violations with one or more missing key Attributes",
                            got.val[first].policyId, got.val[first].assetId>>))

\* variant: a violation without severity is returned as received
processIACValidationResponse_asReceived(operation) ==
    IF operation.response.some
       /\ operation.response.val.iacValidationReport.some
       /\ operation.response.val.iacValidationReport.val.violations.some
    THEN operation.response.val.iacValidationReport.val.violations.val
    ELSE <<>>

\* processIACValidationResponse
processIACValidationResponse(operation) ==
    IF operation.response.some
       /\ operation.response.val.iacValidationReport.some
       /\ operation.response.val.iacValidationReport.val.violations.some
    THEN LET vs == operation.response.val.iacValidationReport.val.violations.val IN
         [ i \in 1..Len(vs) |->
             IF vs[i].severity = ""
             THEN [vs[i] EXCEPT !.severity = "SEVERITY_UNSPECIFIED"]
             ELSE vs[i] ]
    ELSE <<>>

-----------------------------------------------------------------------------
(* Values of the parser and run() variables while only the client runs      *)

NoExpression == [kind |-> "none", items |-> <<>>]
NotParsed == [kind |-> "none"]
NotRunning == [pc |-> "none"]

-----------------------------------------------------------------------------
(* Initial state: a freshly constructed client on which scan() is called.   *)

Init ==
    /\ scanStartTime \in ScanStartTimes
    /\ scanTimeOut \in ScanTimeOuts
    /\ retryCount = 0
    /\ plan \in Plans
    /\ \E d \in 0..MaxStartDelaySec : now = scanStartTime + d * MsPerSecond
    /\ pc = "scan"
    /\ method = "none"
    /\ intervalMs = 0
    /\ pollIntervalMs = 0
    /\ inflight = 0
    /\ result = NoResult
    /\ posts = 0
    /\ gets = 0
    /\ lastReqTime = -1
    /\ lastStatus = -1
    /\ waits = <<>>
    /\ calledAt = now
    /\ op = None
    /\ scans = 1
    /\ failure_criteria = NoExpression
    /\ parsed = NotParsed
    /\ run = NotRunning

\* scan() ends by throwing err through its catch block
ScanThrows(err) ==
    /\ pc' = "done"
    /\ result' = ScanCatch(err)

\* scan() ends by returning vs
ScanReturns(vs) ==
    /\ pc' = "done"
    /\ result' = Returned(vs)

-----------------------------------------------------------------------------
(* Actions *)

\* scan(), lines 302-320: size check, then the call of request('POST', ...)
ScanBegin ==
    /\ pc = "scan"
    /\ LET v == validateIACValidationRequest(plan) IN
       IF v.some
       THEN ScanThrows(v.val) /\ UNCHANGED method
       ELSE pc' = "token" /\ method' = "POST" /\ UNCHANGED result
    /\ UNCHANGED <<scanStartTime, scanTimeOut, retryCount, plan, now, intervalMs,
                   pollIntervalMs, inflight, posts, gets, lastReqTime, lastStatus,
                   waits, calledAt>>
    /\ UNCHANGED <<op, scans, actionVars>>

\* variant: a failed token fetch is attempted again
GetAccessToken_retried ==
    /\ pc = "token"
    /\ \E d \in Latencies, ok \in BOOLEAN :
         /\ now' = now + d
         /\ IF ok
            THEN pc' = "while" /\ UNCHANGED result
            ELSE pc' = "token" /\ UNCHANGED result
    /\ UNCHANGED <<scanStartTime, scanTimeOut, retryCount, plan, method, intervalMs,
                   pollIntervalMs, inflight, posts, gets, lastReqTime, lastStatus,
                   waits, calledAt>>
    /\ UNCHANGED <<op, scans, actionVars>>

\* request(), line 156: await this.auth.getAccessToken(); a failure is not
\* caught inside request() and reaches the catch block of scan()
GetAccessToken ==
    /\ pc = "token"
    /\ \E d \in Latencies, ok \in BOOLEAN :
         /\ now' = now + d
         /\ IF ok
            THEN pc' = "while" /\ UNCHANGED result
            ELSE ScanThrows(OtherError(<<"token provider failed">>))
    /\ UNCHANGED <<scanStartTime, scanTimeOut, retryCount, plan, method, intervalMs,
                   pollIntervalMs, inflight, posts, gets, lastReqTime, lastStatus,
                   waits, calledAt>>
    /\ UNCHANGED <<op, scans, actionVars>>

\* request(), lines 164-169: the loop test succeeds, the interval is computed,
\* retryCount is incremented and the HTTP call is started
RequestIssue ==
    /\ pc = "while"
    /\ shouldRetry(now)
    /\ retryCount < MaxRetryCount
    /\ intervalMs' = Interval(retryCount)
    /\ retryCount' = retryCount + 1
    /\ inflight' = inflight + 1
    /\ posts' = IF method = "POST" THEN posts + 1 ELSE posts
    /\ gets' = IF method = "GET" THEN gets + 1 ELSE gets
    /\ lastReqTime' = now
    /\ lastStatus' = -1
    /\ pc' = "await"
    /\ UNCHANGED <<scanStartTime, scanTimeOut, plan, now, method, pollIntervalMs,
                   result, waits, calledAt>>
    /\ UNCHANGED <<op, scans, actionVars>>

\* request(), lines 164 and 194: the loop test fails
RequestTimeout ==
    /\ pc = "while"
    /\ ~shouldRetry(now)
    /\ ScanThrows(TimedOut)
    /\ UNCHANGED <<scanStartTime, scanTimeOut, retryCount, plan, now, method, intervalMs,
                   pollIntervalMs, inflight, posts, gets, lastReqTime, lastStatus,
                   waits, calledAt>>
    /\ UNCHANGED <<op, scans, actionVars>>

\* statusCode as request() reads it: response.message.statusCode || 500
EffectiveStatus(raw) == IF raw = 0 THEN 500 ELSE raw

\* variant: a call that throws is followed by the wait and another attempt
TransportThrows_retried ==
    /\ pc = "await"
    /\ \E d \in Latencies : now' = now + d
    /\ inflight' = inflight - 1
    /\ pc' = "sleep"
    /\ UNCHANGED <<scanStartTime, scanTimeOut, retryCount, plan, method, intervalMs,
                   pollIntervalMs, posts, gets, lastReqTime, lastStatus, waits, calledAt,
                   result>>
    /\ UNCHANGED <<op, scans, actionVars>>

\* request(), lines 169-170 and 184-191: the HTTP call or readBody() throws
TransportThrows ==
    /\ pc = "await"
    /\ \E d \in Latencies : now' = now + d
    /\ inflight' = inflight - 1
    /\ ScanThrows(RequestCatch(OtherError(<<"transport failure">>), ErrorMsg(method)))
    /\ UNCHANGED <<scanStartTime, scanTimeOut, retryCount, plan, method, intervalMs,
                   pollIntervalMs, posts, gets, lastReqTime, lastStatus, waits, calledAt>>
    /\ UNCHANGED <<op, scans, actionVars>>

\* request(), lines 171-175: a retryable status; the sleep of line 174 starts
ResponseRetriable ==
    /\ pc = "await"
    /\ \E d \in Latencies, raw \in StatusCodes :
         /\ EffectiveStatus(raw) \in RETRIABLE_ERROR_CODES
         /\ now' = now + d
         /\ lastStatus' = EffectiveStatus(raw)
    /\ inflight' = inflight - 1
    /\ pc' = "sleep"
    /\ UNCHANGED <<scanStartTime, scanTimeOut, retryCount, plan, method, intervalMs,
                   pollIntervalMs, result, posts, gets, lastReqTime, waits, calledAt>>
    /\ UNCHANGED <<op, scans, actionVars>>

\* request(), lines 177-182 and 184-191: a status >= 400 that is not retryable
ResponseHttpError ==
    /\ pc = "await"
    /\ \E d \in Latencies, raw \in StatusCodes :
         LET statusCode == EffectiveStatus(raw) IN
         /\ statusCode \notin RETRIABLE_ERROR_CODES
         /\ statusCode >= 400
         /\ now' = now + d
         /\ lastStatus' = statusCode
         /\ ScanThrows(RequestCatch(
               IACValidationException(statusCode, <<"statusCode :", ToString(statusCode)>>),
               ErrorMsg(method)))
    /\ inflight' = inflight - 1
    /\ UNCHANGED <<scanStartTime, scanTimeOut, retryCount, plan, method, intervalMs,
                   pollIntervalMs, posts, gets, lastReqTime, waits, calledAt>>
    /\ UNCHANGED <<op, scans, actionVars>>

\* request(), lines 183-191: JSON.parse(body) throws on a success status
ResponseBadJson ==
    /\ pc = "await"
    /\ \E d \in Latencies, raw \in StatusCodes :
         LET statusCode == EffectiveStatus(raw) IN
         /\ statusCode \notin RETRIABLE_ERROR_CODES
         /\ statusCode < 400
         /\ now' = now + d
         /\ lastStatus' = statusCode
    /\ inflight' = inflight - 1
    /\ ScanThrows(RequestCatch(OtherError(<<"Unexpected token">>), ErrorMsg(method)))
    /\ UNCHANGED <<scanStartTime, scanTimeOut, retryCount, plan, method, intervalMs,
                   pollIntervalMs, posts, gets, lastReqTime, waits, calledAt>>
    /\ UNCHANGED <<op, scans, actionVars>>

\* variant: the counter is not reset between the phases
ResetRetryCount_keep(rc) == rc

\* scan(), line 323: this.retryCount = 0
ResetRetryCount(rc) == 0

\* variant: scan() goes on to poll whatever the status of the POST response
PostAccepted_any ==
    /\ pc = "await"
    /\ method = "POST"
    /\ \E d \in Latencies, raw \in StatusCodes :
         /\ now' = now + d
         /\ lastStatus' = EffectiveStatus(raw)
    /\ retryCount' = 0
    /\ waits' = <<>>
    /\ pc' = "poll"
    /\ inflight' = inflight - 1
    /\ UNCHANGED <<scanStartTime, scanTimeOut, plan, method, intervalMs, pollIntervalMs,
                   result, posts, gets, lastReqTime, calledAt>>
    /\ UNCHANGED <<op, scans, actionVars>>

\* request() line 183 returns to scan(), lines 321-325: the POST succeeded;
\* retryCount is reset and pollOperation is entered
PostAccepted ==
    /\ pc = "await"
    /\ method = "POST"
    /\ \E d \in Latencies, raw \in StatusCodes, body \in PostBodies :
         LET statusCode == EffectiveStatus(raw) IN
         /\ statusCode \notin RETRIABLE_ERROR_CODES
         /\ statusCode < 400
         /\ now' = now + d
         /\ lastStatus' = statusCode
         /\ IF body.some
            THEN /\ retryCount' = ResetRetryCount(retryCount)
                 /\ waits' = <<>>
                 /\ pc' = "poll"
                 /\ UNCHANGED result
            ELSE \* resp.name on null
                 /\ ScanThrows(OtherError(<<"Cannot read properties of null">>))
                 /\ UNCHANGED <<retryCount, waits>>
    /\ inflight' = inflight - 1
    /\ UNCHANGED <<scanStartTime, scanTimeOut, plan, method, intervalMs, pollIntervalMs,
                   posts, gets, lastReqTime, calledAt>>
    /\ UNCHANGED <<op, scans, actionVars>>

\* variant: a done operation that arrives after the deadline is dropped
GetReturned_abandons ==
    /\ pc = "await"
    /\ method = "GET"
    /\ \E d \in Latencies, raw \in StatusCodes, body \in GetBodies :
         LET statusCode == EffectiveStatus(raw) IN
         /\ statusCode \notin RETRIABLE_ERROR_CODES
         /\ statusCode < 400
         /\ now' = now + d
         /\ lastStatus' = statusCode
         /\ IF body.some /\ body.val.done
            THEN /\ op' = body
                 /\ LET v == validatePollOperationResponse(body.val) IN
                    IF ~shouldRetry(now + d)
                    THEN ScanThrows(TimedOut)
                    ELSE IF v.some
                    THEN ScanThrows(v.val)
                    ELSE ScanReturns(processIACValidationResponse(body.val))
            ELSE pc' = "pollsleep" /\ UNCHANGED <<result, op>>
    /\ inflight' = inflight - 1
    /\ UNCHANGED <<scanStartTime, scanTimeOut, retryCount, plan, method, intervalMs,
                   pollIntervalMs, posts, gets, lastReqTime, waits, calledAt>>
    /\ UNCHANGED <<scans, actionVars>>

\* request() line 183 returns through getOperation to pollOperation, lines
\* 272-276, and for a done operation to scan(), lines 326-328
GetReturned ==
    /\ pc = "await"
    /\ method = "GET"
    /\ \E d \in Latencies, raw \in StatusCodes, body \in GetBodies :
         LET statusCode == EffectiveStatus(raw) IN
         /\ statusCode \notin RETRIABLE_ERROR_CODES
         /\ statusCode < 400
         /\ now' = now + d
         /\ lastStatus' = statusCode
         /\ IF body.some /\ body.val.done
            THEN /\ op' = body
                 /\ LET v == validatePollOperationResponse(body.val) IN
                    IF v.some
                    THEN ScanThrows(v.val)
                    ELSE ScanReturns(processIACValidationResponse(body.val))
            ELSE pc' = "pollsleep" /\ UNCHANGED <<result, op>>
    /\ inflight' = inflight - 1
    /\ UNCHANGED <<scanStartTime, scanTimeOut, retryCount, plan, method, intervalMs,
                   pollIntervalMs, posts, gets, lastReqTime, waits, calledAt>>
    /\ UNCHANGED <<scans, actionVars>>

\* request(), line 174: the timer fires after at least intervalMs
RetrySleep ==
    /\ pc = "sleep"
    /\ \E j \in Jitters : now' = now + intervalMs + j
    /\ waits' = Append(waits, intervalMs)
    /\ pc' = "while"
    /\ UNCHANGED <<scanStartTime, scanTimeOut, retryCount, plan, method, intervalMs,
                   pollIntervalMs, inflight, result, posts, gets, lastReqTime,
                   lastStatus, calledAt>>
    /\ UNCHANGED <<op, scans, actionVars>>

\* pollOperation(), lines 270-272: the loop test succeeds, the interval is
\* computed and getOperation calls request('GET', ...)
PollBegin ==
    /\ pc = "poll"
    /\ shouldRetry(now)
    /\ pollIntervalMs' = Interval(retryCount)
    /\ method' = "GET"
    /\ pc' = "token"
    /\ UNCHANGED <<scanStartTime, scanTimeOut, retryCount, plan, now, intervalMs,
                   inflight, result, posts, gets, lastReqTime, lastStatus, waits, calledAt>>
    /\ UNCHANGED <<op, scans, actionVars>>

\* pollOperation(), lines 270 and 279: the loop test fails
PollTimeout ==
    /\ pc = "poll"
    /\ ~shouldRetry(now)
    /\ ScanThrows(TimedOut)
    /\ UNCHANGED <<scanStartTime, scanTimeOut, retryCount, plan, now, method, intervalMs,
                   pollIntervalMs, inflight, posts, gets, lastReqTime, lastStatus,
                   waits, calledAt>>
    /\ UNCHANGED <<op, scans, actionVars>>

\* pollOperation(), line 276: the timer fires after at least pollIntervalMs
PollSleep ==
    /\ pc = "pollsleep"
    /\ \E j \in Jitters : now' = now + pollIntervalMs + j
    /\ waits' = Append(waits, pollIntervalMs)
    /\ pc' = "poll"
    /\ UNCHANGED <<scanStartTime, scanTimeOut, retryCount, plan, method, intervalMs,
                   pollIntervalMs, inflight, result, posts, gets, lastReqTime,
                   lastStatus, calledAt>>
    /\ UNCHANGED <<op, scans, actionVars>>

Next ==
    \/ ScanBegin
    \/ GetAccessToken
    \/ RequestIssue
    \/ RequestTimeout
    \/ TransportThrows
    \/ ResponseRetriable
    \/ ResponseHttpError
    \/ ResponseBadJson
    \/ PostAccepted
    \/ GetReturned
    \/ RetrySleep
    \/ PollBegin
    \/ PollTimeout
    \/ PollSleep

Spec == Init /\ [][Next]_vars

\* every awaited call returns and every timer fires
FairSpec == Spec /\ WF_vars(Next)

Deadline == scanStartTime + scanTimeOut

-----------------------------------------------------------------------------
(* A caller that keeps the client object and calls scan() on it again.      *)
(* scan() assigns retryCount only at line 323, after the submit; the         *)
(* constructor's assignment of line 147 is not repeated.                     *)

MaxScans == 2           \* the most scan() calls made on one client object

\* variant: scan() starts by resetting the counter
ScanAgain_fresh ==
    /\ pc = "done"
    /\ scans < MaxScans
    /\ scans' = scans + 1
    /\ pc' = "scan"
    /\ retryCount' = 0
    /\ method' = "none"
    /\ intervalMs' = 0
    /\ pollIntervalMs' = 0
    /\ result' = NoResult
    /\ op' = None
    /\ posts' = 0
    /\ gets' = 0
    /\ lastReqTime' = -1
    /\ lastStatus' = -1
    /\ waits' = <<>>
    /\ calledAt' = now
    /\ UNCHANGED <<scanStartTime, scanTimeOut, plan, now, inflight>>
    /\ UNCHANGED actionVars

\* scan() is called again once the previous call has settled: its locals and
\* the histories of the call start afresh, the fields of the object stay
ScanAgain ==
    /\ pc = "done"
    /\ scans < MaxScans
    /\ scans' = scans + 1
    /\ pc' = "scan"
    /\ method' = "none"
    /\ intervalMs' = 0
    /\ pollIntervalMs' = 0
    /\ result' = NoResult
    /\ op' = None
    /\ posts' = 0
    /\ gets' = 0
    /\ lastReqTime' = -1
    /\ lastStatus' = -1
    /\ waits' = <<>>
    /\ calledAt' = now
    /\ UNCHANGED <<scanStartTime, scanTimeOut, retryCount, plan, now, inflight>>
    /\ UNCHANGED actionVars

\* one client, constructed with the short timeout for a plan of valid size
ReuseInit ==
    /\ Init
    /\ scanStartTime = 0
    /\ scanTimeOut = ShortTimeoutSec * MsPerSecond
    /\ plan = [ascii |-> 3, wide |-> 0]

ReuseNext ==
    \/ ScanBegin
    \/ GetAccessToken
    \/ RequestIssue
    \/ RequestTimeout
    \/ TransportThrows
    \/ ResponseRetriable
    \/ ResponseHttpError
    \/ ResponseBadJson
    \/ PostAccepted
    \/ GetReturned
    \/ RetrySleep
    \/ PollBegin
    \/ PollTimeout
    \/ PollSleep
    \/ ScanAgain

ReuseSpec == ReuseInit /\ [][ReuseNext]_vars

TypeOK ==
    /\ pc \in {"scan", "token", "while", "await", "sleep", "poll", "pollsleep", "done"}
    /\ retryCount \in Nat
    /\ inflight \in 0..1
    /\ result.kind \in {"none", "ok", "error"}

-----------------------------------------------------------------------------
(* The failure criteria parser (src/src/utils.ts).                          *)
(* A string is modelled by its trimmed, upper-cased text and two flags:     *)
(* lower (it has lower-case letters) and padded (it has surrounding         *)
(* whitespace).  An expression is the list of its comma-separated parts,    *)
(* each part the list of its colon-separated strings.                       *)

MaxItems == 3           \* the largest number of comma-separated parts explored

Str(t) == [text |-> t, lower |-> FALSE, padded |-> FALSE]
Raw(t, l, p) == [text |-> t, lower |-> l, padded |-> p]

\* variant: trim is missing
Trim_same(str) == str

\* String.prototype.trim and String.prototype.toUpperCase
Trim(str) == [str EXCEPT !.padded = FALSE]

\* variant: toUpperCase is missing
ToUpperCase_same(str) == str

ToUpperCase(str) == [str EXCEPT !.lower = FALSE]

\* the unary plus of validateAndReturnNumber, on a trimmed upper-cased text;
\* the value is in halves so that 0.5 can be told from 0 and 1
HalvesPerUnit == 2
ToNumber(text) ==
    CASE text = "0"   -> [nan |-> FALSE, halves |-> 0]
      [] text = "1"   -> [nan |-> FALSE, halves |-> 1 * HalvesPerUnit]
      [] text = "2"   -> [nan |-> FALSE, halves |-> 2 * HalvesPerUnit]
      [] text = "-1"  -> [nan |-> FALSE, halves |-> (-1) * HalvesPerUnit]
      [] text = "0.5" -> [nan |-> FALSE, halves |-> 1]
      [] text = ""    -> [nan |-> FALSE, halves |-> 0]
      [] OTHER        -> [nan |-> TRUE, halves |-> 0]

SeverityValues == <<"SEVERITY_UNSPECIFIED", "CRITICAL", "HIGH", "MEDIUM", "LOW">>

DEFAULT_FAILURE_CRITERIA ==
    [kind |-> "string",
     items |-> << <<Raw("CRITICAL", TRUE, FALSE), Str("1")>>,
                  <<Raw("HIGH", TRUE, FALSE), Str("1")>>,
                  <<Raw("MEDIUM", TRUE, FALSE), Str("1")>>,
                  <<Raw("LOW", TRUE, FALSE), Str("1")>>,
                  <<Raw("OPERATOR", TRUE, FALSE), Raw("OR", TRUE, FALSE)>> >>]

\* variant: only a missing string is empty
isEmptyString_nullOnly(e) == e.kind = "undefined"

\* isEmptyString: str == null || str == ''
isEmptyString(e) == e.kind = "undefined" \/ e.items = <<>>

\* str.split(','): the empty string splits into one empty part
SplitComma(e) == IF e.items = <<>> THEN << <<Str("")>> >> ELSE e.items

\* a thrown Error and a returned value
Threw(message) == [threw |-> TRUE, message |-> message]
Gave(v) == [threw |-> FALSE, val |-> v]

\* Map.prototype.set on a map kept as the list of its entries in insertion order
MapSet(m, k, v) ==
    IF \E i \in 1..Len(m) : m[i].key = k
    THEN [ i \in 1..Len(m) |-> IF m[i].key = k THEN [key |-> k, value |-> v] ELSE m[i] ]
    ELSE Append(m, [key |-> k, value |-> v])

MapHas(m, k) == \E i \in 1..Len(m) : m[i].key = k

\* constructKeyValueMapFromString, from part i of the split string on
RECURSIVE constructFrom(_, _, _)
constructFrom(parts, i, m) ==
    IF i > Len(parts) THEN Gave(m)
    ELSE IF Len(parts[i]) # 2 THEN Threw(<<"string format invalid">>)
    ELSE constructFrom(parts, i + 1,
                       MapSet(m, ToUpperCase(Trim(parts[i][1])), ToUpperCase(Trim(parts[i][2]))))

constructKeyValueMapFromString(e) == constructFrom(SplitComma(e), 1, <<>>)

isValidOperatorKey(key) == key = Str("OPERATOR")

extractOperatorValue(value) ==
    IF value = Str("AND") THEN Gave("AND")
    ELSE IF value = Str("OR") THEN Gave("OR")
    ELSE Threw(<<"operator value:", value.text, "not valid">>)

\* variant: SEVERITY_UNSPECIFIED is taken as a severity key
extractSeverityKey_any(key, errMsg) ==
    IF \E i \in 1..Len(SeverityValues) : Str(SeverityValues[i]) = key
    THEN Gave(key.text)
    ELSE Threw(errMsg)

extractSeverityKey(key, errMsg) ==
    IF \E i \in 1..Len(SeverityValues) :
         Str(SeverityValues[i]) = key /\ key # Str("SEVERITY_UNSPECIFIED")
    THEN Gave(key.text)
    ELSE Threw(errMsg)

\* variant: the isNaN test is missing
validateAndReturnNumber_unchecked(number) ==
    IF number.text = "" /\ ~number.padded THEN Threw(<<"Number is empty">>)
    ELSE Gave(ToNumber(number.text).halves)

validateAndReturnNumber(number) ==
    IF number.text = "" /\ ~number.padded THEN Threw(<<"Number is empty">>)
    ELSE IF ToNumber(number.text).nan THEN Threw(<<"Invalid number:", number.text>>)
    ELSE Gave(ToNumber(number.text).halves)

\* the forEach of validateAndExtractFailureCriteriaFromMap, from entry i on;
\* operator is "" while undefined
RECURSIVE extractFrom(_, _, _, _)
extractFrom(m, i, operator, thresholds) ==
    IF i > Len(m) THEN Gave([operator |-> operator, thresholds |-> thresholds])
    ELSE LET key == m[i].key
             value == m[i].value IN
         IF isValidOperatorKey(key)
         THEN IF operator # "" THEN Threw(<<"multiple operators found.">>)
              ELSE LET o == extractOperatorValue(value) IN
                   IF o.threw THEN o ELSE extractFrom(m, i + 1, o.val, thresholds)
         ELSE LET sev == extractSeverityKey(key,
                            <<"invalid key:", key.text, "value:", value.text, "pair found.">>) IN
              IF sev.threw THEN sev
              ELSE IF MapHas(thresholds, sev.val)
              THEN Threw(<<"multiple severities of type", key.text, "found.">>)
              ELSE LET n == validateAndReturnNumber(value) IN
                   IF n.threw THEN Threw(<<"invalid severity count,">> \o n.message)
                   ELSE extractFrom(m, i + 1, operator, MapSet(thresholds, sev.val, n.val))

validateAndExtractFailureCriteriaFromMap(m) ==
    LET r == extractFrom(m, 1, "", <<>>) IN
    IF r.threw THEN r
    ELSE IF r.val.operator = "" THEN Threw(<<"no operator found.">>)
    ELSE IF Len(r.val.thresholds) = 0 THEN Threw(<<"no severity mentioned in operator.">>)
    ELSE r

\* validateAndParseFailureCriteria: a FailureCriteria or the Error thrown
validateAndParseFailureCriteria(e) ==
    LET str == IF isEmptyString(e) THEN DEFAULT_FAILURE_CRITERIA ELSE e
        m == constructKeyValueMapFromString(str)
        r == IF m.threw THEN m ELSE validateAndExtractFailureCriteriaFromMap(m.val) IN
    IF r.threw
    THEN [kind |-> "error", message |-> <<"failure_criteria validation failed :">> \o r.message]
    ELSE [kind |-> "ok", operator |-> r.val.operator,
          violationsThresholdBySeverity |-> r.val.thresholds]

\* the comma-separated parts the expressions are built from
ItemPool ==
    { <<Raw("LOW", TRUE, FALSE), Str("1")>>,
      <<Raw("LOW", TRUE, TRUE), Raw("2", FALSE, TRUE)>>,
      <<Str("LOW"), Str("0")>>,
      <<Str("LOW"), Str("-1")>>,
      <<Str("LOW"), Str("0.5")>>,
      <<Str("LOW"), Raw("RANDOM", TRUE, FALSE)>>,
      <<Str("LOW"), Str("")>>,
      <<Raw("HIGH", TRUE, FALSE), Str("1")>>,
      <<Raw("CRITICAL", TRUE, TRUE), Str("2")>>,
      <<Str("INVALID"), Str("1")>>,
      <<Str("SEVERITY_UNSPECIFIED"), Str("1")>>,
      <<Raw("OPERATOR", TRUE, FALSE), Str("OR")>>,
      <<Raw("OPERATOR", TRUE, TRUE), Raw("OR", TRUE, TRUE)>>,
      <<Raw("OPERATOR", TRUE, FALSE), Str("AND")>>,
      <<Str("OPERATOR"), Raw("AND", TRUE, FALSE)>>,
      <<Raw("OPERATOR", TRUE, FALSE), Str("RANDOM")>>,
      <<Raw("LOW 1", TRUE, FALSE)>>,
      <<Str("LOW"), Str("1"), Str("2")>> }

RECURSIVE ItemLists(_)
ItemLists(n) ==
    IF n = 0 THEN {<<>>}
    ELSE ItemLists(n - 1) \cup
         { Append(l, it) : l \in { x \in ItemLists(n - 1) : Len(x) = n - 1 }, it \in ItemPool }

Expressions ==
    { [kind |-> "undefined", items |-> <<>>] } \cup
    { [kind |-> "string", items |-> l] : l \in ItemLists(MaxItems) }

\* the scan client at rest, for the specifications that do not run it
ScanIdle ==
    /\ scanStartTime = 0
    /\ scanTimeOut = 0
    /\ retryCount = 0
    /\ plan = [ascii |-> 0, wide |-> 0]
    /\ now = 0
    /\ pc = "idle"
    /\ method = "none"
    /\ intervalMs = 0
    /\ pollIntervalMs = 0
    /\ inflight = 0
    /\ result = NoResult
    /\ posts = 0
    /\ gets = 0
    /\ lastReqTime = -1
    /\ lastStatus = -1
    /\ waits = <<>>
    /\ calledAt = 0
    /\ op = None
    /\ scans = 0

ParseInit ==
    /\ ScanIdle
    /\ failure_criteria \in Expressions
    /\ parsed = NotParsed
    /\ run = NotRunning

\* one call of validateAndParseFailureCriteria
Parse ==
    /\ parsed = NotParsed
    /\ parsed' = validateAndParseFailureCriteria(failure_criteria)
    /\ UNCHANGED <<scanVars, failure_criteria, run>>

ParseNext == Parse

ParseSpec == ParseInit /\ [][ParseNext]_vars

-----------------------------------------------------------------------------
(* The evaluator (src/unnamed/part_006, utils.ts of the release that has    *)
(* isFailureCriteriaSatisfied in it).                                        *)

MaxViolations == 2      \* the longest violation list a run evaluates

\* violation.severity ?? Severity.SeverityUnspecified
SeverityOf(violation) ==
    IF violation.severity = "" THEN "SEVERITY_UNSPECIFIED" ELSE violation.severity

\* variant: every violation is counted under every severity
getViolationCountBySeverity_total(violations) ==
    [ sev \in { SeverityValues[i] : i \in 1..Len(SeverityValues) } |-> Len(violations) ]

\* getViolationCountBySeverity: a severity missing from the Map counts 0
getViolationCountBySeverity(violations) ==
    [ sev \in { SeverityValues[i] : i \in 1..Len(SeverityValues) } |->
        Cardinality({ i \in 1..Len(violations) : SeverityOf(violations[i]) = sev }) ]

\* variant: a count equal to the threshold does not meet it
getFailureCriteriasViolated_strict(violationsCountBySeverity, violationsThresholdBySeverity) ==
    [ i \in 1..Len(violationsThresholdBySeverity) |->
        violationsCountBySeverity[violationsThresholdBySeverity[i].key] * HalvesPerUnit
            > violationsThresholdBySeverity[i].value ]

\* variant: a severity without violations meets no threshold
getFailureCriteriasViolated_needsCount(violationsCountBySeverity, violationsThresholdBySeverity) ==
    [ i \in 1..Len(violationsThresholdBySeverity) |->
        /\ violationsCountBySeverity[violationsThresholdBySeverity[i].key] > 0
        /\ violationsCountBySeverity[violationsThresholdBySeverity[i].key] * HalvesPerUnit
              >= violationsThresholdBySeverity[i].value ]

\* variant: only a count equal to the threshold meets it
getFailureCriteriasViolated_exact(violationsCountBySeverity, violationsThresholdBySeverity) ==
    [ i \in 1..Len(violationsThresholdBySeverity) |->
        violationsCountBySeverity[violationsThresholdBySeverity[i].key] * HalvesPerUnit
            = violationsThresholdBySeverity[i].value ]

\* getFailureCriteriasViolated: one boolean per threshold, in Map order
getFailureCriteriasViolated(violationsCountBySeverity, violationsThresholdBySeverity) ==
    [ i \in 1..Len(violationsThresholdBySeverity) |->
        violationsCountBySeverity[violationsThresholdBySeverity[i].key] * HalvesPerUnit
            >= violationsThresholdBySeverity[i].value ]

\* isFailureCriteriaSatisfied
isFailureCriteriaSatisfied(fc, violations) ==
    LET violated == getFailureCriteriasViolated(getViolationCountBySeverity(violations),
                                                fc.violationsThresholdBySeverity) IN
    IF fc.operator = "AND"
    THEN \A i \in 1..Len(violated) : violated[i]
    ELSE \E i \in 1..Len(violated) : violated[i]

-----------------------------------------------------------------------------
(* run() (src/unnamed/part_006, main.ts of the same release).  The awaits   *)
(* of run() cut it into steps; the catch block runs in the step that throws. *)

\* parseDuration gives seconds, or throws on a string that is no duration
Duration(text, seconds) == [text |-> text, valid |-> TRUE, seconds |-> seconds]
NoDuration(text) == [text |-> text, valid |-> FALSE, seconds |-> 0]

parseDuration(d) ==
    IF d.valid THEN Gave(d.seconds) ELSE Threw(<<"invalid duration:", d.text>>)

MAX_SCAN_TIMEOUT == Duration("10m", 600)
MIN_SCAN_TIMEOUT == Duration("1m", 60)
DEFAULT_SCAN_TIMEOUT == 60000
DEFAULT_FAIL_SILENTLY == FALSE
DEFAULT_IGNORE_VIOLATIONS == FALSE

\* parseBoolean: trims and ignores case; the empty string gives the default
parseBoolean(input, defaultValue) ==
    CASE input.text = ""      -> Gave(defaultValue)
      [] input.text = "TRUE"  -> Gave(TRUE)
      [] input.text = "FALSE" -> Gave(FALSE)
      [] OTHER                -> Threw(<<"invalid boolean value", input.text>>)

\* the inputs of the workflow step; getInput has already trimmed them
BooleanInputs ==
    { Str(""), Raw("TRUE", TRUE, FALSE), Raw("FALSE", TRUE, FALSE), Raw("MAYBE", TRUE, FALSE) }

IacTypeInputs ==
    { Str(""), Raw("TERRAFORM", TRUE, FALSE), Str("TERRAFORM"), Raw("HELM", TRUE, FALSE) }

ScanTimeoutInputs ==
    { Duration("", 0), Duration("0s", 0), Duration("30s", 30), Duration("1m", 60),
      Duration("10m", 600), Duration("11m", 660), NoDuration("abc") }

FailureCriteriaInputs ==
    { [kind |-> "string", items |-> <<>>],
      [kind |-> "string",
       items |-> << <<Raw("LOW", TRUE, FALSE), Str("1")>>,
                    <<Raw("OPERATOR", TRUE, FALSE), Raw("OR", TRUE, FALSE)>> >>],
      [kind |-> "string",
       items |-> << <<Str("HIGH"), Str("1")>>,
                    <<Raw("LOW", TRUE, TRUE), Str("2")>>,
                    <<Raw("OPERATOR", TRUE, TRUE), Raw("AND", TRUE, FALSE)>> >>],
      [kind |-> "string",
       items |-> << <<Str("LOW"), Str("0")>>, <<Str("OPERATOR"), Str("OR")>> >>],
      [kind |-> "string", items |-> << <<Raw("LOW 1", TRUE, FALSE)>> >>],
      [kind |-> "string", items |-> << <<Str("LOW"), Str("1")>> >>] }

\* the violations a scan may return: ids present, severity set
ScannedViolations ==
    { [assetId |-> "asset-id", policyId |-> "policy-id", severity |-> sev] :
        sev \in {"LOW", "HIGH", "SEVERITY_UNSPECIFIED"} }

RECURSIVE ScannedLists(_)
ScannedLists(n) ==
    IF n = 0 THEN {<<>>}
    ELSE ScannedLists(n - 1) \cup
         { Append(l, v) : l \in { x \in ScannedLists(n - 1) : Len(x) = n - 1 },
                          v \in ScannedViolations }

\* the errors scan() may throw
ScanFailures ==
    { ScanCatch(IACValidationException(500, <<"Operation timed out">>)),
      ScanCatch(IACValidationException(400, <<"encountered error while requesting scan">>)) }

\* setOutput(IAC_SCAN_RESULT_OUTPUT_KEY, value); the output holds the last value
SetOutput(r, value) == [r EXCEPT !.outputs = Append(@, value)]

\* setFailed(ACTION_FAIL_ERROR(...))
SetFailed(r, why) == [r EXCEPT !.failed = TRUE, !.failedBy = why]

\* variant: the catch block leaves the classification output alone
Catch_noOutput(r, cause) ==
    LET r1 == [r EXCEPT !.pc = "end", !.caught = cause]
        failSilently == parseBoolean(r.fail_silently, DEFAULT_FAIL_SILENTLY) IN
    IF failSilently.threw THEN [r1 EXCEPT !.rejected = TRUE]
    ELSE IF ~failSilently.val THEN SetFailed(r1, "error")
    ELSE [r1 EXCEPT !.suppressed = TRUE]

\* variant: the catch block fails the build whatever fail_silently says
Catch_alwaysFails(r, cause) ==
    [SetFailed(SetOutput(r, "error"), "error") EXCEPT !.pc = "end", !.caught = cause]

\* the catch block of run(); a throw of parseBoolean in it rejects run()
Catch(r, cause) ==
    LET r1 == [SetOutput(r, "error") EXCEPT !.pc = "end", !.caught = cause]
        failSilently == parseBoolean(r.fail_silently, DEFAULT_FAIL_SILENTLY) IN
    IF failSilently.threw THEN [r1 EXCEPT !.rejected = TRUE]
    ELSE IF ~failSilently.val THEN SetFailed(r1, "error")
    ELSE [r1 EXCEPT !.suppressed = TRUE]

\* the inputs read and validated at the top of the try block
ScanTimeoutMs(d) ==
    IF parseDuration(d).val * MsPerSecond # 0
    THEN parseDuration(d).val * MsPerSecond
    ELSE DEFAULT_SCAN_TIMEOUT

ValidateInputs(r, expression) ==
    IF r.iac_type.text = "" THEN Threw(<<"Input required and not supplied: iac_type">>)
    ELSE IF parseDuration(r.scan_timeout).threw THEN parseDuration(r.scan_timeout)
    ELSE IF \/ ScanTimeoutMs(r.scan_timeout) > parseDuration(MAX_SCAN_TIMEOUT).val * MsPerSecond
            \/ ScanTimeoutMs(r.scan_timeout) < parseDuration(MIN_SCAN_TIMEOUT).val * MsPerSecond
    THEN Threw(<<"invalid input received for scan_timeout:", r.scan_timeout.text>>)
    ELSE IF parseBoolean(r.ignore_violations, DEFAULT_IGNORE_VIOLATIONS).threw
    THEN parseBoolean(r.ignore_violations, DEFAULT_IGNORE_VIOLATIONS)
    ELSE IF validateAndParseFailureCriteria(expression).kind = "error"
    THEN Threw(validateAndParseFailureCriteria(expression).message)
    ELSE IF ToUpperCase(r.iac_type) # Str("TERRAFORM")
    THEN Threw(<<"IAC type:", r.iac_type.text, "not supported">>)
    ELSE Gave([scanTimeoutMs |-> ScanTimeoutMs(r.scan_timeout),
               ignoreViolations |-> parseBoolean(r.ignore_violations, DEFAULT_IGNORE_VIOLATIONS).val])

\* whether validateAndParseFailureCriteria is reached in the try block
ReachesParse(r) ==
    /\ r.iac_type.text # ""
    /\ ~parseDuration(r.scan_timeout).threw
    /\ ScanTimeoutMs(r.scan_timeout) <= parseDuration(MAX_SCAN_TIMEOUT).val * MsPerSecond
    /\ ScanTimeoutMs(r.scan_timeout) >= parseDuration(MIN_SCAN_TIMEOUT).val * MsPerSecond
    /\ ~parseBoolean(r.ignore_violations, DEFAULT_IGNORE_VIOLATIONS).threw

\* variant: the classification output follows ignore_violations
Evaluate_outputIgnores(r, fc) ==
    LET satisfied == isFailureCriteriaSatisfied(fc, r.violations.val)
        r1 == IF satisfied /\ ~r.ignoreViolations
              THEN SetFailed(SetOutput(r, "failed"), "criteria")
              ELSE r IN
    [SetOutput(r1, IF satisfied /\ ~r.ignoreViolations THEN "failed" ELSE "passed")
        EXCEPT !.pc = "end", !.satisfied = Some(satisfied)]

\* variant: ignore_violations is not consulted
Evaluate_neverIgnores(r, fc) ==
    LET satisfied == isFailureCriteriaSatisfied(fc, r.violations.val)
        r1 == IF satisfied
              THEN SetFailed(SetOutput(r, "failed"), "criteria")
              ELSE r IN
    [SetOutput(r1, IF satisfied THEN "failed" ELSE "passed")
        EXCEPT !.pc = "end", !.satisfied = Some(satisfied)]

\* the tail of the try block, after processReport
Evaluate(r, fc) ==
    LET satisfied == isFailureCriteriaSatisfied(fc, r.violations.val)
        r1 == IF satisfied /\ ~r.ignoreViolations
              THEN SetFailed(SetOutput(r, "failed"), "criteria")
              ELSE r IN
    [SetOutput(r1, IF satisfied THEN "failed" ELSE "passed")
        EXCEPT !.pc = "end", !.satisfied = Some(satisfied)]

RunInit ==
    /\ ScanIdle
    /\ failure_criteria \in FailureCriteriaInputs
    /\ parsed = NotParsed
    /\ \E it \in IacTypeInputs, st \in ScanTimeoutInputs,
          iv \in BooleanInputs, fs \in BooleanInputs :
         run = [pc |-> "start",
                iac_type |-> it, scan_timeout |-> st,
                ignore_violations |-> iv, fail_silently |-> fs,
                scanTimeoutMs |-> 0, ignoreViolations |-> FALSE,
                violations |-> None, reported |-> None, satisfied |-> None,
                outputs |-> <<>>, failed |-> FALSE, failedBy |-> "none",
                caught |-> "none", suppressed |-> FALSE, rejected |-> FALSE,
                sarifPath |-> FALSE]

\* the try block up to the call of fs.readFile, the inputs valid
RunValidated ==
    /\ run.pc = "start"
    /\ ~ValidateInputs(run, failure_criteria).threw
    /\ parsed' = validateAndParseFailureCriteria(failure_criteria)
    /\ run' = [run EXCEPT !.pc = "readFile",
                          !.scanTimeoutMs = ValidateInputs(run, failure_criteria).val.scanTimeoutMs,
                          !.ignoreViolations = ValidateInputs(run, failure_criteria).val.ignoreViolations]
    /\ UNCHANGED <<scanVars, failure_criteria>>

\* the try block throws on an input; the catch block runs
RunInvalid ==
    /\ run.pc = "start"
    /\ ValidateInputs(run, failure_criteria).threw
    /\ parsed' = IF ReachesParse(run)
                 THEN validateAndParseFailureCriteria(failure_criteria)
                 ELSE NotParsed
    /\ run' = Catch(run, "validation")
    /\ UNCHANGED <<scanVars, failure_criteria>>

\* readFile resolves: the client is constructed and scan() is called
ReadFileResolves ==
    /\ run.pc = "readFile"
    /\ scanStartTime' = now
    /\ scanTimeOut' = run.scanTimeoutMs
    /\ retryCount' = 0
    /\ scans' = 1
    /\ run' = [run EXCEPT !.pc = "scan"]
    /\ UNCHANGED <<plan, now, pc, method, intervalMs, pollIntervalMs, inflight, result,
                   posts, gets, lastReqTime, lastStatus, waits, calledAt, op,
                   failure_criteria, parsed>>

\* readFile rejects: the catch block runs
ReadFileRejects ==
    /\ run.pc = "readFile"
    /\ run' = Catch(run, "readFile")
    /\ UNCHANGED <<scanVars, failure_criteria, parsed>>

\* scan() resolves with the violations; processReport is called with them
ScanResolves ==
    /\ run.pc = "scan"
    /\ \E vs \in ScannedLists(MaxViolations) :
         /\ result' = Returned(vs)
         /\ run' = [run EXCEPT !.pc = "report", !.violations = Some(vs), !.reported = Some(vs)]
    /\ UNCHANGED <<scanStartTime, scanTimeOut, retryCount, plan, now, pc, method, intervalMs,
                   pollIntervalMs, inflight, posts, gets, lastReqTime, lastStatus, waits,
                   calledAt, op, scans, failure_criteria, parsed>>

\* scan() rejects: the catch block runs
ScanRejects ==
    /\ run.pc = "scan"
    /\ \E e \in ScanFailures :
         /\ result' = e
         /\ run' = Catch(run, "scan")
    /\ UNCHANGED <<scanStartTime, scanTimeOut, retryCount, plan, now, pc, method, intervalMs,
                   pollIntervalMs, inflight, posts, gets, lastReqTime, lastStatus, waits,
                   calledAt, op, scans, failure_criteria, parsed>>

\* processReport once fs.writeFile has resolved (sarif_report_generator.ts
\* lines 187-190): setOutput(IAC_SCAN_RESULT_SARIF_PATH_OUTPUT_KEY, ...)
processReport(r) == [r EXCEPT !.sarifPath = TRUE]

\* processReport resolves: the criteria is evaluated and the outputs are set
ReportResolves ==
    /\ run.pc = "report"
    /\ run' = Evaluate(processReport(run), parsed)
    /\ UNCHANGED <<scanVars, failure_criteria, parsed>>

\* processReport rejects: the catch block runs
ReportRejects ==
    /\ run.pc = "report"
    /\ run' = Catch(run, "report")
    /\ UNCHANGED <<scanVars, failure_criteria, parsed>>

RunNext ==
    \/ RunValidated
    \/ RunInvalid
    \/ ReadFileResolves
    \/ ReadFileRejects
    \/ ScanResolves
    \/ ScanRejects
    \/ ReportResolves
    \/ ReportRejects

RunSpec == RunInit /\ [][RunNext]_vars

-----------------------------------------------------------------------------
(* The evaluation alone: run() at the point where processReport has         *)
(* resolved, for every criteria the parser returns and every violation      *)
(* list of the bound.                                                        *)

AcceptedExpressions ==
    { e \in Expressions : validateAndParseFailureCriteria(e).kind = "ok" }

EvalInit ==
    /\ ScanIdle
    /\ failure_criteria \in AcceptedExpressions
    /\ parsed = validateAndParseFailureCriteria(failure_criteria)
    /\ \E vs \in ScannedLists(MaxViolations) :
         run = [pc |-> "report",
                iac_type |-> Str("TERRAFORM"), scan_timeout |-> Duration("", 0),
                ignore_violations |-> Str(""), fail_silently |-> Str(""),
                scanTimeoutMs |-> DEFAULT_SCAN_TIMEOUT,
                ignoreViolations |-> DEFAULT_IGNORE_VIOLATIONS,
                violations |-> Some(vs), reported |-> Some(vs), satisfied |-> None,
                outputs |-> <<>>, failed |-> FALSE, failedBy |-> "none",
                caught |-> "none", suppressed |-> FALSE, rejected |-> FALSE,
                sarifPath |-> FALSE]

EvalNext == ReportResolves

EvalSpec == EvalInit /\ [][EvalNext]_vars

-----------------------------------------------------------------------------
(* The report processor (src/src/reports/sarif_report_generator.ts, lines    *)
(* 141-319): a call processReport(report, reportGenerator, reportName).      *)
(* run holds the state of the call: the report it was given, the document    *)
(* generate returned, and whether the path output was set.                   *)

ReportedViolations ==
    { [assetId |-> a, policyId |-> p, severity |-> s] :
        a \in {"asset-1", "asset-2"}, p \in {"policy-1", "policy-2"}, s \in {"HIGH", "LOW"} }

RECURSIVE ReportedLists(_)
ReportedLists(n) ==
    IF n = 0 THEN {<<>>}
    ELSE ReportedLists(n - 1) \cup
         { Append(l, v) : l \in { x \in ReportedLists(n - 1) : Len(x) = n - 1 },
                          v \in ReportedViolations }

\* IACValidationReport: note and violations are optional fields
ReportInputs ==
    { [note |-> Some("note"), violations |-> vs] :
        vs \in {None} \cup { Some(l) : l \in ReportedLists(MaxViolations) } }

\* getUniqueViolation, from violation i on: the first violation of each policyId
RECURSIVE uniqueFrom(_, _, _)
uniqueFrom(violations, i, policyToViolationMap) ==
    IF i > Len(violations) THEN policyToViolationMap
    ELSE uniqueFrom(violations, i + 1,
                    IF MapHas(policyToViolationMap, violations[i].policyId)
                    THEN policyToViolationMap
                    ELSE MapSet(policyToViolationMap, violations[i].policyId, violations[i]))

getUniqueViolation(violations) == uniqueFrom(violations, 1, <<>>)

\* constructRules: one rule per entry of the map, in insertion order
constructRules(policyToViolationsMap) ==
    [ i \in 1..Len(policyToViolationsMap) |->
        [id |-> policyToViolationsMap[i].key,
         severity |-> policyToViolationsMap[i].value.severity] ]

\* constructResults: one result per violation, in order
constructResults(violations) ==
    [ i \in 1..Len(violations) |->
        [ruleId |-> violations[i].policyId, assetId |-> violations[i].assetId] ]

constructSARIFReport(rules, results, note) ==
    [note |-> note, rules |-> rules, results |-> results]

\* generate: the cast <Violation[]>report.violations checks nothing, and
\* forEach on a missing violations field throws a TypeError
generate(report) ==
    IF ~report.violations.some
    THEN Threw(<<"TypeError: Cannot read properties of undefined (reading 'forEach')">>)
    ELSE Gave(constructSARIFReport(constructRules(getUniqueViolation(report.violations.val)),
                                   constructResults(report.violations.val),
                                   report.note))

ReportInit ==
    /\ ScanIdle
    /\ failure_criteria = NoExpression
    /\ parsed = NotParsed
    /\ \E report \in ReportInputs :
         run = [pc |-> "generate", report |-> report, document |-> None,
                sarifPath |-> FALSE, error |-> <<>>]

\* processReport, lines 185-187: generate runs and fs.writeFile is started;
\* a throw of generate rejects the call
ProcessReportBegin ==
    /\ run.pc = "generate"
    /\ LET generatedReport == generate(run.report) IN
       run' = IF generatedReport.threw
              THEN [run EXCEPT !.pc = "rejected", !.error = generatedReport.message]
              ELSE [run EXCEPT !.pc = "writeFile", !.document = Some(generatedReport.val)]
    /\ UNCHANGED <<scanVars, failure_criteria, parsed>>

\* fs.writeFile resolves: lines 188-190
WriteFileResolves ==
    /\ run.pc = "writeFile"
    /\ run' = [processReport(run) EXCEPT !.pc = "resolved"]
    /\ UNCHANGED <<scanVars, failure_criteria, parsed>>

\* fs.writeFile rejects, and so does the call
WriteFileRejects ==
    /\ run.pc = "writeFile"
    /\ run' = [run EXCEPT !.pc = "rejected", !.error = <<"writeFile failed">>]
    /\ UNCHANGED <<scanVars, failure_criteria, parsed>>

ReportNext ==
    \/ ProcessReportBegin
    \/ WriteFileResolves
    \/ WriteFileRejects

ReportSpec == ReportInit /\ [][ReportNext]_vars

-----------------------------------------------------------------------------
(* Properties of the scan client *)

ScanPrefix == "Failed to scan file due to following error:"

\* the error scan() throws when a loop test finds the deadline passed
TimeoutFailure ==
    [kind |-> "error", statusCode |-> 500,
     message |-> <<ScanPrefix, "Operation timed out">>, violations |-> <<>>]

\* the failure is the one request() raises for an HTTP status
IsHttpFailure(r) ==
    /\ r.kind = "error"
    /\ Len(r.message) = 4
    /\ r.message[3] = "statusCode :"

RetryableStatuses == {408, 429, 500, 502, 503, 504}

\* C1: no request, POST or GET, is started at or after scanStartTime +
\* scanTimeOut, and a scan called at or after the deadline issues none.
C1_NoRequestAtOrAfterDeadline ==
    /\ (posts + gets > 0 => lastReqTime < scanStartTime + scanTimeOut)
    /\ (calledAt >= scanStartTime + scanTimeOut => posts + gets = 0)

\* a GET started in the last second before the deadline, after a retried submit
C1_Witness ==
    /\ pc = "await"
    /\ method = "GET"
    /\ posts >= 2
    /\ lastReqTime = scanStartTime + scanTimeOut - MsPerSecond

\* C2: every scan terminates, with a violation list or with an error, when
\* every awaited call returns and every sleep advances the clock by at least
\* its interval.
C2_ScanTerminates == <>(pc = "done" /\ result.kind \in {"ok", "error"})

\* an operation that stayed not-done, or a server that kept answering with a
\* retryable status, ended in the timeout failure
C2_Witness ==
    /\ pc = "done"
    /\ result = TimeoutFailure
    /\ gets >= 3

\* C3: a loop test that finds the deadline passed makes scan fail with
\* 'Operation timed out' and status 500, whatever the last response was.
C3_TimeoutIs500 ==
    [][ (pc \in {"while", "poll"} /\ now >= scanStartTime + scanTimeOut)
          => (pc' = "done" /\ result' = TimeoutFailure) ]_vars

\* the submit loop timed out after a 429
C3_Witness ==
    /\ pc = "done"
    /\ result = TimeoutFailure
    /\ lastStatus = 429
    /\ method = "POST"

\* C4: a retryable status is followed by a wait and then, if the deadline has
\* not passed, by one more request of the same method; the scan never fails
\* with an HTTP failure carrying a retryable status.
C4_RetryableIsRetried ==
    /\ [](pc = "sleep" => (lastStatus \in RetryableStatuses /\ result.kind = "none"))
    /\ [](IsHttpFailure(result) => result.statusCode \notin RetryableStatuses)
    /\ [][ (pc = "await" /\ lastStatus' \in RetryableStatuses)
             => (pc' = "sleep" /\ UNCHANGED <<method, posts, gets>>) ]_vars
    /\ [][ pc = "sleep" => (pc' = "while" /\ UNCHANGED <<method, posts, gets>>) ]_vars
    /\ [][ (pc = "while" /\ now < scanStartTime + scanTimeOut)
             => (pc' = "await" /\ method' = method
                 /\ posts' + gets' = posts + gets + 1
                 /\ posts' = IF method = "POST" THEN posts + 1 ELSE posts) ]_vars

\* a submit answered with a retryable status and then 200 has issued exactly
\* two POSTs and enters the poll loop
C4_Witness ==
    /\ pc = "poll"
    /\ posts = 2
    /\ gets = 0
    /\ waits = <<>>
    /\ lastStatus = 200
    /\ retryCount = 0

\* C5: a status >= 400 outside the retryable set fails the scan at once with
\* that status, in both phases, and no request follows; a failed submit is
\* never followed by a poll.
C5_NonRetryableFailsAtOnce ==
    /\ [][ (pc = "await" /\ lastStatus' >= 400 /\ lastStatus' \notin RetryableStatuses)
             => (pc' = "done" /\ result'.kind = "error"
                 /\ result'.statusCode = lastStatus'
                 /\ UNCHANGED <<posts, gets>>) ]_vars
    /\ [][ pc = "done" => UNCHANGED <<posts, gets, inflight>> ]_vars
    /\ []((pc = "done" /\ method = "POST") => gets = 0)

\* a poll answered 404
C5_Witness ==
    /\ pc = "done"
    /\ method = "GET"
    /\ lastStatus = 404
    /\ result.statusCode = 404

\* C6: when the submit succeeds retryCount is zero before the first GET, and
\* the first wait of the poll phase is 2^0 seconds whatever the number of
\* POSTs the submit phase needed.
C6_CounterResetBeforePoll ==
    /\ ((pc = "poll" /\ gets = 0) => retryCount = 0)
    /\ ((gets = 1 /\ pc \in {"await", "sleep", "pollsleep"})
          => (intervalMs = 1000 /\ pollIntervalMs = 1000))
    /\ ((gets >= 1 /\ Len(waits) >= 1) => waits[1] = 1000)

\* the first wait of the poll phase, after a submit that took three POSTs
C6_Witness ==
    /\ gets = 1
    /\ posts = 3
    /\ waits = <<1000>>

\* C7: in the submit phase retryCount is the number of POSTs started, and
\* the wait after the k-th retryable response is 2^(k-1) seconds.
C7_SubmitBackoff ==
    (method = "POST" /\ pc \in {"token", "while", "await", "sleep"}) =>
        /\ retryCount = posts
        /\ \A k \in 1..Len(waits) : waits[k] = (2 ^ (k - 1)) * 1000
        /\ (pc = "sleep" => (Len(waits) = posts - 1 /\ intervalMs = (2 ^ (posts - 1)) * 1000))
        /\ (pc = "while" => Len(waits) = posts)

\* three retryable answers to the submit: waits of 1s, 2s and 4s
C7_Witness ==
    /\ method = "POST"
    /\ pc = "while"
    /\ waits = <<1000, 2000, 4000>>

\* C8: in the poll phase the wait after the n-th GET is 2^(n-1) seconds for
\* any mix of retryable and not-done answers, so successive waits never
\* shrink.
C8_PollBackoff ==
    (gets >= 1 /\ method = "GET") =>
        /\ \A k \in 1..Len(waits) : waits[k] = (2 ^ (k - 1)) * 1000
        /\ \A k \in 1..(Len(waits) - 1) : waits[k] <= waits[k + 1]

\* C9: at most one request is in flight, the first GET is started only
\* after a POST came back with a success status, and no POST is started
\* after a GET.
C9_Sequential ==
    /\ [](inflight <= 1)
    /\ [](gets > 0 => posts >= 1)
    /\ [][ (posts' + gets' > posts + gets) => inflight = 0 ]_vars
    /\ [][ (gets = 0 /\ gets' > 0)
             => (posts >= 1 /\ lastStatus \in 1..399 /\ lastStatus \notin RetryableStatuses) ]_vars
    /\ [][ gets > 0 => posts' = posts ]_vars

\* the second GET in flight after two POSTs
C9_Witness ==
    /\ pc = "await"
    /\ method = "GET"
    /\ inflight = 1
    /\ posts = 2
    /\ gets = 2

SizeFailure ==
    [kind |-> "error", statusCode |-> 400,
     message |-> <<ScanPrefix, "[Invalid Request] Violations : Found Scan File with size">>,
     violations |-> <<>>]

\* C10: a plan of more than 1000000 bytes fails with status 400 before any
\* request and without retry; a plan of exactly 1000000 bytes is submitted.
C10_SizeLimit ==
    /\ []( plan.ascii + 2 * plan.wide > 1000000
             => /\ pc \in {"scan", "done"}
                /\ posts + gets = 0
                /\ retryCount = 0
                /\ (pc = "done" => result = SizeFailure) )
    /\ []( plan.ascii + 2 * plan.wide <= 1000000 => result # SizeFailure )
    /\ [][ (pc = "scan" /\ plan.ascii + 2 * plan.wide <= 1000000)
             => (pc' = "token" /\ method' = "POST") ]_vars

\* a plan of 1000000 characters and 1000001 bytes was refused
C10_Witness ==
    /\ pc = "done"
    /\ plan = [ascii |-> 999999, wide |-> 1]
    /\ result = SizeFailure
    /\ posts = 0

-----------------------------------------------------------------------------
(* Properties of the result validation *)

\* the done operation has a response with a validation report
HasReport(o) == o.response.some /\ o.response.val.iacValidationReport.some

\* the violations the done operation carries; none when the field is missing
ReceivedViolations(o) ==
    IF HasReport(o) /\ o.response.val.iacValidationReport.val.violations.some
    THEN o.response.val.iacValidationReport.val.violations.val
    ELSE <<>>

IsBlank(v) == v.assetId = "" \/ v.policyId = ""

\* C11: a done operation with an error field fails the scan at once, with
\* the error's code as status (500 without code), whatever response the
\* operation also carries.
C11_OperationErrorFails ==
    /\ []( (op.some /\ op.val.error.some) =>
             /\ pc = "done"
             /\ result.kind = "error"
             /\ result.statusCode =
                  (IF op.val.error.val.code = 0 THEN 500 ELSE op.val.error.val.code)
             /\ result.message = <<ScanPrefix, "Returned Error Response with following error:">> )
    /\ [][ op.some => UNCHANGED <<posts, gets, pc>> ]_vars

\* an operation with error code 400 and a well-formed report
C11_Witness ==
    /\ op.some
    /\ op.val.error = Some([code |-> 400])
    /\ HasReport(op.val)
    /\ ReceivedViolations(op.val) =
         <<HighViolation, [assetId |-> "asset-id", policyId |-> "policy-id", severity |-> "CRITICAL"]>>
    /\ result.statusCode = 400

\* C12: a done operation without error gives a violation list only if its
\* response and the report inside are present; otherwise the scan fails
\* with an internal error of status 500 and polling is not resumed.
C12_ResponseAndReportRequired ==
    /\ []( (op.some /\ ~op.val.error.some /\ ~op.val.response.some) =>
             /\ pc = "done"
             /\ result.kind = "error"
             /\ result.statusCode = 500
             /\ result.message =
                  <<ScanPrefix, "[Internal Error]  Polling Validation Service Endpoint Timed Out">> )
    /\ []( (op.some /\ ~op.val.error.some /\ op.val.response.some
              /\ ~op.val.response.val.iacValidationReport.some) =>
             /\ pc = "done"
             /\ result.kind = "error"
             /\ result.statusCode = 500
             /\ result.message =
                  <<ScanPrefix,
                    "[Internal Error] Validation Endpoint Returned Response with invalid validationReport">> )
    /\ []( result.kind = "ok" => (op.some /\ ~op.val.error.some /\ HasReport(op.val)) )
    /\ [][ op.some => UNCHANGED <<gets, pc>> ]_vars

\* a done operation whose response has no report
C12_Witness ==
    /\ op.some
    /\ ~op.val.error.some
    /\ op.val.response = Some([iacValidationReport |-> None])
    /\ result.kind = "error"

\* C13: one violation with an empty or missing assetId or policyId fails
\* the whole scan with status 500; a failure never returns violations.
C13_BlankIdFailsAll ==
    /\ (op.some /\ ~op.val.error.some
          /\ \E i \in 1..Len(ReceivedViolations(op.val)) : IsBlank(ReceivedViolations(op.val)[i]))
         => (result.kind = "error" /\ result.statusCode = 500 /\ result.violations = <<>>)
    /\ (result.kind = "error" => result.violations = <<>>)

\* a valid violation followed by one without assetId
C13_Witness ==
    /\ op.some
    /\ ~op.val.error.some
    /\ ReceivedViolations(op.val) =
         <<HighViolation, [assetId |-> "", policyId |-> "policy-id", severity |-> "CRITICAL"]>>
    /\ result.kind = "error"

\* C14: on success the violations are returned in number and order as
\* received, a missing severity replaced by SEVERITY_UNSPECIFIED and
\* nothing else changed; each has a severity and non-empty ids.
C14_OnlySeverityDefaulted ==
    result.kind = "ok" =>
        /\ op.some
        /\ Len(result.violations) = Len(ReceivedViolations(op.val))
        /\ \A i \in 1..Len(result.violations) :
             LET got == ReceivedViolations(op.val)[i]
                 ret == result.violations[i] IN
             /\ ret.assetId = got.assetId
             /\ ret.policyId = got.policyId
             /\ ret.severity = (IF got.severity = "" THEN "SEVERITY_UNSPECIFIED" ELSE got.severity)
             /\ ret.assetId # ""
             /\ ret.policyId # ""
             /\ ret.severity # ""

\* two violations returned, the second received without severity
C14_Witness ==
    /\ result.kind = "ok"
    /\ Len(result.violations) = 2
    /\ result.violations[1] = HighViolation
    /\ result.violations[2].severity = "SEVERITY_UNSPECIFIED"

\* the status code of the innermost cause of a failure, read off the message
CauseStatus(r) ==
    IF r.message[2] = "[Invalid Request] Violations : Found Scan File with size" THEN 400
    ELSE IF IsHttpFailure(r) THEN lastStatus
    ELSE IF r.message[2] = "Returned Error Response with following error:"
    THEN (IF op.val.error.val.code = 0 THEN 500 ELSE op.val.error.val.code)
    ELSE 500

\* C15: every failure of scan is one error wrapped with the scan prefix,
\* whose status is the status of the innermost cause, 500 when it has none.
C15_WrappedWithInnerStatus ==
    /\ (pc = "done" => result.kind \in {"ok", "error"})
    /\ (result.kind = "error" =>
          /\ pc = "done"
          /\ Len(result.message) >= 2
          /\ result.message[1] = ScanPrefix
          /\ \A k \in 2..Len(result.message) : result.message[k] # ScanPrefix
          /\ result.statusCode = CauseStatus(result))

\* a submit refused with 400
C15_Witness ==
    /\ pc = "done"
    /\ method = "POST"
    /\ IsHttpFailure(result)
    /\ result.statusCode = 400

\* a done operation that passes validatePollOperationResponse
WellFormed(o) ==
    /\ ~o.error.some
    /\ HasReport(o)
    /\ \A i \in 1..Len(ReceivedViolations(o)) : ~IsBlank(ReceivedViolations(o)[i])

\* C32: the deadline is looked at only by the loop tests: 'Operation timed
\* out' is raised at a loop test with no call in flight; the answer to a GET
\* started before the deadline is validated and returned whenever it
\* arrives; a wait that has begun lasts its whole interval.
C32_InFlightNeverAbandoned ==
    [][ /\ (pc # "done" /\ pc' = "done" /\ result' = TimeoutFailure)
              => (pc \in {"while", "poll"} /\ inflight = 0
                    /\ now >= scanStartTime + scanTimeOut)
        /\ (pc = "await" /\ op' # op)
              => /\ result' # TimeoutFailure
                 /\ WellFormed(op'.val) => result'.kind = "ok"
        /\ pc = "sleep" => (pc' = "while" /\ now' >= now + waits'[Len(waits')])
        /\ pc = "pollsleep" => (pc' = "poll" /\ now' >= now + waits'[Len(waits')])
      ]_vars

\* a done operation answered at or after the deadline and returned
C32_Witness ==
    /\ pc = "done"
    /\ result.kind = "ok"
    /\ op.some
    /\ lastReqTime < scanStartTime + scanTimeOut
    /\ now >= scanStartTime + scanTimeOut

\* the error scan() throws when the token provider fails
TokenFailure ==
    [kind |-> "error", statusCode |-> 500,
     message |-> <<ScanPrefix, "token provider failed">>, violations |-> <<>>]

\* C34: a failure of the token provider ends scan() with the wrapped error
\* of status 500; the request() call whose token fetch failed issues no HTTP
\* request (in the submit phase no request is issued at all) and the token
\* fetch is not attempted again.
C34_TokenFailurePropagates ==
    [][ pc = "token"
          => /\ posts' = posts /\ gets' = gets
             /\ inflight' = inflight /\ retryCount' = retryCount
             /\ pc' \in {"while", "done"}
             /\ pc' = "done" => result' = TokenFailure
             /\ (pc' = "done" /\ method = "POST") => (posts = 0 /\ gets = 0)
      ]_vars

\* the token provider failed before the submit request
C34_Witness ==
    /\ pc = "done"
    /\ result = TokenFailure
    /\ method = "POST"
    /\ posts = 0
    /\ inflight = 0

\* the error scan() throws when the HTTP call throws or the body is not JSON
IsUnparsedFailure(r) ==
    /\ r.kind = "error"
    /\ Len(r.message) = 3
    /\ r.message[3] \in {"transport failure", "Unexpected token"}

\* C35: when the HTTP call throws or the body of a success status is not
\* JSON, scan() fails in that very step with status 500, in either phase
\* and however far the deadline is; the wait before another attempt starts
\* only on a retryable status received in that step.
C35_ThrownCallNotRetried ==
    [][ /\ pc = "await"
             => /\ pc' \in {"done", "sleep", "poll", "pollsleep"}
                /\ posts' = posts /\ gets' = gets
                /\ pc' = "sleep"
                     => (lastStatus' \in RetryableStatuses /\ now' >= lastReqTime)
        /\ (result' # result /\ IsUnparsedFailure(result'))
             => /\ pc = "await" /\ pc' = "done"
                /\ result'.statusCode = 500
                /\ result'.message = <<ScanPrefix, ErrorMsg(method), result'.message[3]>>
      ]_vars

\* the first submit request throws long before the deadline
C35_Witness ==
    /\ pc = "done"
    /\ IsUnparsedFailure(result)
    /\ method = "POST"
    /\ posts = 1
    /\ now + 4 * MsPerSecond <= scanStartTime + scanTimeOut

\* a done operation without error whose report has no violations field
ReportWithoutViolations(o) ==
    /\ ~o.error.some
    /\ HasReport(o)
    /\ ~o.response.val.iacValidationReport.val.violations.some

\* the criteria the action uses by default, and one with a threshold of zero
DefaultCriteria == validateAndParseFailureCriteria(DEFAULT_FAILURE_CRITERIA)
ZeroLowCriteria ==
    validateAndParseFailureCriteria(
        [kind |-> "string",
         items |-> << <<Str("LOW"), Str("0")>>, <<Str("OPERATOR"), Str("OR")>> >>])

\* C38: a done operation whose report is present but has no violations field
\* makes scan() return the empty list, not an error; every severity then
\* counts zero, so the default criteria (thresholds of 1) is not satisfied
\* and a threshold of zero is.
C38_MissingViolationsIsEmptyList ==
    (op.some /\ ReportWithoutViolations(op.val)) =>
        /\ pc = "done"
        /\ result = Returned(<<>>)
        /\ \A sev \in DOMAIN getViolationCountBySeverity(result.violations) :
              getViolationCountBySeverity(result.violations)[sev] = 0
        /\ DefaultCriteria.kind = "ok"
        /\ ~isFailureCriteriaSatisfied(DefaultCriteria, result.violations)
        /\ ZeroLowCriteria.kind = "ok"
        /\ isFailureCriteriaSatisfied(ZeroLowCriteria, result.violations)

\* scan() has returned for a report without violations field
C38_Witness ==
    /\ pc = "done"
    /\ op.some
    /\ ReportWithoutViolations(op.val)
    /\ result.kind = "ok"
    /\ gets >= 1

\* C33 as stated: the attempt counter is zero whenever a scan() call starts
\* its submit phase, also on a client object that has scanned before.
C33_CounterZeroAtEveryScan ==
    (pc = "scan" \/ (method = "POST" /\ posts = 0)) => retryCount = 0

\* C33: the counter is zero when the first scan() on a client object starts
\* and whenever a poll phase starts; scan() does not reset it at its start,
\* so a later scan() on the same object starts its submit phase with the
\* counter the earlier call left and its waits start from that power of two.
C33_CounterZeroOnFreshClient ==
    /\ []( /\ (scans = 1 /\ (pc = "scan" \/ (method = "POST" /\ posts = 0)))
                => retryCount = 0
           /\ (pc = "poll" /\ gets = 0) => retryCount = 0
           /\ (method = "POST" /\ pc \in {"token", "while", "await", "sleep"})
                => \A k \in 1..Len(waits) :
                      waits[k] = (2 ^ (retryCount - posts + k - 1)) * 1000 )
    /\ [][ scans' # scans
             => /\ pc = "done" /\ pc' = "scan"
                /\ retryCount' = retryCount
                /\ scanStartTime' = scanStartTime /\ scanTimeOut' = scanTimeOut
         ]_vars

\* the second scan() on the object waits 2s after its first POST
C33_Witness ==
    /\ scans = 2
    /\ method = "POST"
    /\ posts = 1
    /\ retryCount = 2
    /\ waits = <<2000>>

-----------------------------------------------------------------------------
(* Properties of the failure criteria parser *)

\* the parts of an expression whose key, trimmed and upper-cased, is k
PartsWithKey(e, k) ==
    { i \in 1..Len(e.items) : Len(e.items[i]) = 2 /\ e.items[i][1].text = k }

\* C16: an expression with more than one OPERATOR entry, the values equal or
\* different, is rejected: parse never returns a FailureCriteria for it.
C16_MultipleOperatorsRejected ==
    (parsed # NotParsed /\ Cardinality(PartsWithKey(failure_criteria, "OPERATOR")) > 1)
        => parsed.kind = "error"

\* C17: an expression in which a severity key appears twice, in any letter
\* case, is rejected: parse never keeps one of the two thresholds.
C17_DuplicateSeverityRejected ==
    (parsed # NotParsed /\ \E i \in 2..Len(SeverityValues) :
        Cardinality(PartsWithKey(failure_criteria, SeverityValues[i])) > 1)
        => parsed.kind = "error"

\* the expression that is parsed: the default one for an empty input
ParsedExpression ==
    IF failure_criteria.kind = "undefined" \/ failure_criteria.items = <<>>
    THEN DEFAULT_FAILURE_CRITERIA
    ELSE failure_criteria

\* C25: a returned FailureCriteria has one operator, AND or OR, and at least
\* one threshold; its keys are among CRITICAL, HIGH, MEDIUM, LOW, each once;
\* a severity the expression does not mention has no entry.
C25_CriteriaWellFormed ==
    parsed.kind = "ok" =>
        /\ parsed.operator \in {"AND", "OR"}
        /\ Len(parsed.violationsThresholdBySeverity) >= 1
        /\ \A i \in 1..Len(parsed.violationsThresholdBySeverity) :
              /\ parsed.violationsThresholdBySeverity[i].key
                    \in {"CRITICAL", "HIGH", "MEDIUM", "LOW"}
              /\ PartsWithKey(ParsedExpression,
                              parsed.violationsThresholdBySeverity[i].key) # {}
              /\ \A j \in 1..Len(parsed.violationsThresholdBySeverity) :
                    parsed.violationsThresholdBySeverity[i].key
                        = parsed.violationsThresholdBySeverity[j].key => i = j

C25_Witness ==
    /\ parsed.kind = "ok"
    /\ Len(failure_criteria.items) = 2
    /\ Len(parsed.violationsThresholdBySeverity) = 1
    /\ parsed.violationsThresholdBySeverity[1].key = "LOW"
    /\ parsed.operator = "AND"

\* the criteria of 'Critical:1,High:1,Medium:1,Low:1,Operator:OR'
AllOnesOr ==
    [kind |-> "ok", operator |-> "OR",
     violationsThresholdBySeverity |->
        << [key |-> "CRITICAL", value |-> 2], [key |-> "HIGH", value |-> 2],
           [key |-> "MEDIUM", value |-> 2], [key |-> "LOW", value |-> 2] >>]

\* C26: the empty and the missing expression are parsed as
\* 'Critical:1,High:1,Medium:1,Low:1,Operator:OR': threshold 1 for each of
\* the four severities, operator OR.
C26_EmptyGivesDefault ==
    (parsed # NotParsed /\ (failure_criteria.kind = "undefined" \/ failure_criteria.items = <<>>))
        => /\ parsed = AllOnesOr
           /\ parsed = validateAndParseFailureCriteria(
                 [kind |-> "string",
                  items |-> << <<Raw("CRITICAL", TRUE, FALSE), Str("1")>>,
                               <<Raw("HIGH", TRUE, FALSE), Str("1")>>,
                               <<Raw("MEDIUM", TRUE, FALSE), Str("1")>>,
                               <<Raw("LOW", TRUE, FALSE), Str("1")>>,
                               <<Raw("OPERATOR", TRUE, FALSE), Str("OR")>> >>])

C26_Witness ==
    /\ failure_criteria = [kind |-> "string", items |-> <<>>]
    /\ parsed = AllOnesOr

\* the last part of the parsed expression whose key is k
LastPartWithKey(k) ==
    CHOOSE i \in PartsWithKey(ParsedExpression, k) :
        \A j \in PartsWithKey(ParsedExpression, k) : j <= i

\* the value written for severity k, trimmed
WrittenFor(k) == ParsedExpression.items[LastPartWithKey(k)][2].text

Normalized(e) ==
    [e EXCEPT !.items =
        [ i \in 1..Len(e.items) |->
            [ j \in 1..Len(e.items[i]) |-> Str(e.items[i][j].text) ] ]]

-----------------------------------------------------------------------------
(* Properties of run() *)

\* the value iac_scan_result holds: the last one set
LastOutput == run.outputs[Len(run.outputs)]

\* run() has reached its end through the evaluation, without an exception
Evaluated == run.pc = "end" /\ run.caught = "none"

\* the criteria of the run is satisfied by the violations the scan returned
Satisfied == isFailureCriteriaSatisfied(parsed, run.violations.val)

\* the input ignore_violations reads true
IgnoreConfigured == run.ignore_violations.text = "TRUE"

\* C18 as stated: the classification output is 'failed' exactly when the
\* criteria is satisfied and violations are not configured to be ignored.
C18_FailedIffSatisfiedAndNotIgnored ==
    Evaluated => (LastOutput = "failed" <=> (Satisfied /\ ~IgnoreConfigured))

\* C18: the classification output is 'failed' exactly when the criteria is
\* satisfied, whatever ignore_violations is, and 'passed' otherwise.
C18_FailedIffSatisfied ==
    Evaluated => /\ LastOutput = "failed" <=> Satisfied
                 /\ LastOutput = "passed" <=> ~Satisfied

C18_Witness ==
    /\ Evaluated
    /\ IgnoreConfigured
    /\ Satisfied
    /\ LastOutput = "failed"
    /\ ~run.failed

\* C19: with ignore_violations true the build is never marked failed because
\* of violations, while the report is generated from the violations and the
\* classification output follows the criteria; with ignore_violations false
\* the build is marked failed exactly when the criteria is satisfied.
C19_IgnoreOnlySparesTheBuild ==
    /\ IgnoreConfigured => run.failedBy # "criteria"
    /\ (Evaluated /\ IgnoreConfigured) =>
          /\ ~run.failed
          /\ run.reported = run.violations
          /\ LastOutput = IF Satisfied THEN "failed" ELSE "passed"
    /\ (Evaluated /\ ~IgnoreConfigured) =>
          /\ run.failed <=> Satisfied
          /\ run.failed => run.failedBy = "criteria"

C19_Witness ==
    /\ Evaluated
    /\ IgnoreConfigured
    /\ Satisfied
    /\ Len(run.violations.val) = MaxViolations
    /\ run.reported = run.violations
    /\ ~run.failed

\* C20: a run that throws on an invalid input always ends with the build
\* failed, also when fail_silently is true.
C20_ValidationAlwaysFailsBuild ==
    (run.pc = "end" /\ run.caught = "validation") => (run.failed \/ run.rejected)

\* C21: when scan() throws, the classification output is 'error'; the build
\* is marked failed when fail_silently is false (or left empty) and is not
\* marked failed when fail_silently is true.
C21_ScanErrorFollowsFailSilently ==
    (run.pc = "end" /\ run.caught = "scan") =>
        /\ Len(run.outputs) > 0
        /\ LastOutput = "error"
        /\ run.fail_silently.text \in {"FALSE", ""} => run.failed
        /\ run.fail_silently.text = "TRUE" => ~run.failed

C21_Witness ==
    /\ run.pc = "end"
    /\ run.caught = "scan"
    /\ result.kind = "error"
    /\ run.fail_silently.text = "TRUE"
    /\ LastOutput = "error"
    /\ ~run.failed

\* C22: at the end of a run iac_scan_result holds one of passed, failed and
\* error; it holds error exactly when an exception ended the run before the
\* evaluation, and a published passed or failed is never followed by error.
C22_OneClassification ==
    /\ run.pc = "end" =>
          /\ Len(run.outputs) > 0
          /\ run.outputs[Len(run.outputs)] \in {"passed", "failed", "error"}
          /\ run.outputs[Len(run.outputs)] = "error" <=> run.caught # "none"
          /\ run.caught # "none" <=> ~run.satisfied.some
    /\ run.pc # "none" =>
          \A i \in 1..Len(run.outputs) : \A j \in 1..Len(run.outputs) :
             (i < j /\ run.outputs[i] \in {"passed", "failed"}) => run.outputs[j] # "error"

C22_Witness ==
    /\ run.pc = "end"
    /\ run.outputs = <<"failed", "failed">>
    /\ run.caught = "none"

-----------------------------------------------------------------------------
(* Properties of the evaluator *)

\* the number of violations of severity sev among those the run got
CountOf(sev) ==
    Cardinality({ i \in 1..Len(run.violations.val) : run.violations.val[i].severity = sev })

\* the entry i of the criteria is met: its count reaches its threshold
EntryMet(i) ==
    CountOf(parsed.violationsThresholdBySeverity[i].key) * 2
        >= parsed.violationsThresholdBySeverity[i].value

\* C23: the evaluation is the conjunction (AND) or the disjunction (OR), over
\* the thresholds of the criteria, of count >= threshold; a severity without
\* violations counts zero and a count equal to the threshold meets it.
C23_SatisfiedIsAndOrOfThresholds ==
    Evaluated =>
        run.satisfied =
            Some(IF parsed.operator = "AND"
                 THEN \A i \in 1..Len(parsed.violationsThresholdBySeverity) : EntryMet(i)
                 ELSE \E i \in 1..Len(parsed.violationsThresholdBySeverity) : EntryMet(i))

C23_Witness ==
    /\ Evaluated
    /\ parsed.operator = "AND"
    /\ Len(parsed.violationsThresholdBySeverity) = 2
    /\ \A i \in 1..2 :
          /\ parsed.violationsThresholdBySeverity[i].value = 2
          /\ CountOf(parsed.violationsThresholdBySeverity[i].key) = 1
    /\ run.satisfied = Some(TRUE)

\* the severities that have a threshold in the criteria
NamedSeverities ==
    { parsed.violationsThresholdBySeverity[i].key :
        i \in 1..Len(parsed.violationsThresholdBySeverity) }

\* the violations whose severity has a threshold in the criteria
RECURSIVE NamedOnly(_)
NamedOnly(vs) ==
    IF vs = <<>> THEN <<>>
    ELSE IF Head(vs).severity \in NamedSeverities
         THEN <<Head(vs)>> \o NamedOnly(Tail(vs))
         ELSE NamedOnly(Tail(vs))

\* C24: the violations whose severity has no threshold in the criteria,
\* the SEVERITY_UNSPECIFIED ones included, do not change the evaluation:
\* it equals the evaluation of the list without them.
C24_UnnamedSeveritiesIgnored ==
    Evaluated =>
        run.satisfied = Some(isFailureCriteriaSatisfied(parsed, NamedOnly(run.violations.val)))

C24_Witness ==
    /\ Evaluated
    /\ Len(run.violations.val) = 2
    /\ run.violations.val[1].severity = "SEVERITY_UNSPECIFIED"
    /\ run.violations.val[2].severity = "HIGH"
    /\ NamedSeverities = {"LOW"}
    /\ run.satisfied = Some(FALSE)

\* the entries of the criteria whose threshold is zero or less
FreeEntries ==
    { i \in 1..Len(parsed.violationsThresholdBySeverity) :
        parsed.violationsThresholdBySeverity[i].value <= 0 }

\* C36: a threshold of zero or less is met by every violation list, the
\* empty one included: under OR one such threshold satisfies the criteria,
\* under AND the evaluation is that of the other thresholds alone.
C36_NonPositiveThresholdAlwaysMet ==
    Evaluated =>
        /\ \A i \in FreeEntries : EntryMet(i)
        /\ (parsed.operator = "OR" /\ FreeEntries # {}) => run.satisfied = Some(TRUE)
        /\ parsed.operator = "AND" =>
              run.satisfied =
                Some(\A i \in (1..Len(parsed.violationsThresholdBySeverity)) \ FreeEntries :
                        EntryMet(i))

\* zero violations satisfy an OR criteria that has a threshold of zero or less
C36_Witness ==
    /\ Evaluated
    /\ run.violations.val = <<>>
    /\ parsed.operator = "OR"
    /\ FreeEntries # {}
    /\ run.satisfied = Some(TRUE)

\* the sub-list of w made of the positions in keep, in order
RECURSIVE SubListOf(_, _)
SubListOf(w, keep) ==
    IF w = <<>> THEN <<>>
    ELSE LET rest == SubListOf(Tail(w), { i - 1 : i \in keep \ {1} }) IN
         IF 1 \in keep THEN <<Head(w)>> \o rest ELSE rest

\* C37: the evaluation is monotone in the violations: when a sub-list of
\* the violations satisfies the criteria, the whole list satisfies it.
C37_SatisfiedIsMonotone ==
    Evaluated =>
        \A keep \in SUBSET (1..Len(run.violations.val)) :
            isFailureCriteriaSatisfied(parsed, SubListOf(run.violations.val, keep))
                => run.satisfied = Some(TRUE)

\* one violation satisfies the criteria and so do the two of the list,
\* while the empty list does not
C37_Witness ==
    /\ Evaluated
    /\ Len(run.violations.val) = 2
    /\ isFailureCriteriaSatisfied(parsed, SubListOf(run.violations.val, {1}))
    /\ ~isFailureCriteriaSatisfied(parsed, SubListOf(run.violations.val, {}))
    /\ run.satisfied = Some(TRUE)

\* C31: the output iac_scan_result_sarif_path is published only when the
\* scan found violations; after a scan that returned none it is not set.
C31_SarifPathOnlyWithViolations ==
    (run.pc # "none" /\ run.sarifPath) =>
        (run.violations.some /\ run.violations.val # <<>>)

\* the violations of the report handed to processReport, none when the
\* field is missing
ReportedOf(report) == IF report.violations.some THEN report.violations.val ELSE <<>>

\* C39: generate succeeds for every report: the document has one result
\* per violation and one rule per distinct policyId, and a report without
\* violations gives a document with no rule and no result, not an error.
C39_GenerationSucceedsForEveryReport ==
    (run.pc \in {"writeFile", "resolved", "rejected"}) =>
        /\ run.document.some
        /\ Len(run.document.val.results) = Len(ReportedOf(run.report))
        /\ Len(run.document.val.rules) =
              Cardinality({ ReportedOf(run.report)[i].policyId :
                              i \in 1..Len(ReportedOf(run.report)) })

\* as C39 for the reports that have a violations field, the empty list included
ReportWithListGenerates ==
    (run.pc \in {"writeFile", "resolved", "rejected"} /\ run.report.violations.some) =>
        /\ run.document.some
        /\ Len(run.document.val.results) = Len(ReportedOf(run.report))
        /\ Len(run.document.val.rules) =
              Cardinality({ ReportedOf(run.report)[i].policyId :
                              i \in 1..Len(ReportedOf(run.report)) })

-----------------------------------------------------------------------------
(* Properties of the inputs of run() *)

\* the input scan_timeout is a duration from 1 minute to 10 minutes
TimeoutInRange ==
    /\ run.scan_timeout.valid
    /\ run.scan_timeout.seconds * 1000 >= 60000
    /\ run.scan_timeout.seconds * 1000 <= 600000

\* C30: a non-empty scan_timeout outside 1 minute .. 10 minutes ends the run
\* with a validation error and no client is given a timeout; one inside is
\* the timeout of the client; an empty one gives the default, 60000 ms.
C30_TimeoutWithinBounds ==
    run.pc \notin {"none", "start"} =>
        /\ (run.scan_timeout.text # "" /\ ~TimeoutInRange) =>
              (run.caught = "validation" /\ scanTimeOut = 0)
        /\ (run.scan_timeout.text # "" /\ run.pc \in {"scan", "report"}) =>
              scanTimeOut = run.scan_timeout.seconds * 1000
        /\ (run.scan_timeout.text = "" /\ run.pc \in {"scan", "report"}) =>
              scanTimeOut = 60000

\* the cap of retryCount in RequestIssue never binds
CapNotReached == (pc = "while" /\ shouldRetry(now)) => retryCount < MaxRetryCount
====
